---- MODULE Spec2Model ----
(***************************************************************************)
(* Auth Inbox email worker (src/index.ts): the email() pipeline            *)
(*   normalise -> INSERT raw_mails -> AI call / parse / retry loop ->      *)
(*   INSERT code_mails -> Bark notification loop                           *)
(* and the rpcEmail() entry point.  Every await of email() is one step of  *)
(* a run; the D1 database is the only state shared between runs.           *)
(*                                                                         *)
(* JavaScript values are modelled by strings: Undefined and Null are the   *)
(* two absent values, "" is the empty string.  Texts whose characters the  *)
(* code inspects (UseBark, barkTokens, the AI answer) are sequences.       *)
(***************************************************************************)
EXTENDS Integers, Sequences, FiniteSets, TLC

\* ---------------------------------------------------------------- bounds
\* number of email()/rpcEmail() invocations in one behaviour
MaxInvocations == 2

\* ------------------------------------------------------- JavaScript values
Undefined == "undefined"
Null == "null"

\* !x for a string-or-absent value x
Falsy(x) == x \in {Undefined, Null, ""}

\* a || b
OrElse(a, b) == IF Falsy(a) THEN b ELSE a

Last(s) == s[Len(s)]

Front(s) == SubSeq(s, 1, Len(s) - 1)

\* ------------------------------------------------- character-level strings
Whitespace == {" ", "\n"}

\* String.prototype.trim
RECURSIVE TrimLeft(_)
TrimLeft(s) ==
  IF s # <<>> /\ Head(s) \in Whitespace THEN TrimLeft(Tail(s)) ELSE s

RECURSIVE TrimRight(_)
TrimRight(s) ==
  IF s # <<>> /\ Last(s) \in Whitespace THEN TrimRight(Front(s)) ELSE s

Trim(s) == TrimRight(TrimLeft(s))

LowerChar(c) ==
  CASE c = "T" -> "t"
    [] c = "R" -> "r"
    [] c = "U" -> "u"
    [] c = "E" -> "e"
    [] c = "F" -> "f"
    [] c = "A" -> "a"
    [] c = "L" -> "l"
    [] c = "S" -> "s"
    [] OTHER -> c

\* String.prototype.toLowerCase
ToLowerCase(s) == [i \in 1..Len(s) |-> LowerChar(s[i])]

\* String.prototype.split(sep) for a one-character separator
RECURSIVE Split(_, _)
Split(s, sep) ==
  IF \E i \in 1..Len(s) : s[i] = sep
  THEN LET i == CHOOSE j \in 1..Len(s) :
                  s[j] = sep /\ \A k \in 1..(j - 1) : s[k] # sep
       IN  <<SubSeq(s, 1, i - 1)>> \o Split(SubSeq(s, i + 1, Len(s)), sep)
  ELSE <<s>>

\* --------------------------------------------------------- configuration
\* env.UseBark, env.barkTokens, env.barkUrl of the deployments considered
Envs ==
  { [UseBark |-> <<"t","r","u","e">>, barkTokens |-> <<"[","a",","," ","b","]">>,
     barkUrl |-> "https://api.day.app"],
    [UseBark |-> <<"T","r","u","e">>, barkTokens |-> <<"[","a","]">>,
     barkUrl |-> "https://api.day.app"],
    [UseBark |-> <<"t","r","u","e">>, barkTokens |-> <<"[","]">>,
     barkUrl |-> "https://api.day.app"],
    [UseBark |-> <<"f","a","l","s","e">>, barkTokens |-> <<"[","a",","," ","b","]">>,
     barkUrl |-> "https://api.day.app"],
    [UseBark |-> <<"1">>, barkTokens |-> <<"[","a","]">>,
     barkUrl |-> "https://api.day.app"] }

\* mutant: if (env.UseBark), which every non-empty string satisfies
UseBarkOf_Truthy(e) == e.UseBark # <<>>

\* env.UseBark.toLowerCase() === 'true'
UseBarkOf(e) == ToLowerCase(e.UseBark) = <<"t","r","u","e">>

\* env.barkTokens.replace(/^\[|\]$/g, '')
StripBrackets(s) ==
  LET a == IF s # <<>> /\ Head(s) = "[" THEN Tail(s) ELSE s
  IN  IF a # <<>> /\ Last(a) = "]" THEN Front(a) ELSE a

\* env.barkTokens.replace(...).split(',').map(token => token.trim())
ParseBarkTokens(s) ==
  LET parts == Split(StripBrackets(s), ",")
  IN  [i \in 1..Len(parts) |-> Trim(parts[i])]

\* encodeURIComponent on the titles and codes that occur
EncodeURIComponent(x) ==
  CASE x = "Unknown Organization" -> "Unknown%20Organization"
    [] x = "No Code Found" -> "No%20Code%20Found"
    [] x = "123456, https://n.example/verify" -> "123456%2C%20https%3A%2F%2Fn.example%2Fverify"
    [] x = "'''" -> "%60%60%60"
    [] x = "123456,https://n.example/verify" -> "123456%2Chttps%3A%2F%2Fn.example%2Fverify"
    [] x = "123456,https://n.example/v?a=1,2" -> "123456%2Chttps%3A%2F%2Fn.example%2Fv%3Fa%3D1%2C2"
    [] x = "https://n.example/verify" -> "https%3A%2F%2Fn.example%2Fverify"
    [] OTHER -> x

\* ---------------------------------------------------------------- emails
\* Headers: names are case-insensitive, stored lower-cased
LowerName(n) ==
  CASE n = "Message-ID" -> "message-id"
    [] n = "Subject" -> "subject"
    [] OTHER -> n

\* new Headers(headersObject)
NewHeaders(obj) ==
  [n \in {LowerName(k) : k \in DOMAIN obj} |->
     obj[CHOOSE k \in DOMAIN obj : LowerName(k) = n]]

\* headers.get(name): null when the header is missing
HeadersGet(h, name) ==
  IF LowerName(name) \in DOMAIN h THEN h[LowerName(name)] ELSE Null

\* await new Response(message.raw).text(): the chunks of the stream, joined
RECURSIVE ReadText(_)
ReadText(chunks) ==
  IF chunks = <<>> THEN <<>> ELSE Head(chunks) \o ReadText(Tail(chunks))

NoHeaders == [n \in {} |-> ""]

\* the emails delivered in the model: a text is a sequence of lines
Mail1 ==
  [from |-> "alice@a.com", to |-> "inbox@x.org",
   text |-> <<"Subject: Your code", "Your code is 123456">>,
   headers |-> [n \in {"Message-ID"} |-> "<m1@a.com>"]]

Mail2 ==
  [from |-> "bob@b.com", to |-> "inbox@x.org",
   text |-> <<"Subject: Sale", "50% off">>,
   headers |-> NoHeaders]

Mails == {Mail1, Mail2}

NoMail == [from |-> "", to |-> "", text |-> <<>>, headers |-> NoHeaders]

\* a ForwardableEmailMessage as the platform delivers it: raw is a stream
DirectMessage(m) ==
  [from |-> m.from, to |-> m.to,
   headers |-> NewHeaders(m.headers),
   isRpc |-> FALSE,
   raw |-> <<SubSeq(m.text, 1, 1), SubSeq(m.text, 2, Len(m.text))>>,
   rawEmail |-> <<>>]

\* new RPCEmailMessage(from, to, rawEmail, headers)
RPCEmailMessage(from, to, rawEmail, headers) ==
  [from |-> from, to |-> to,
   headers |-> headers,
   isRpc |-> TRUE,
   raw |-> <<>>,
   rawEmail |-> rawEmail]

\* the request bodies handed to rpcEmail: a serialised payload, or no JSON
RpcBody(m) ==
  [json |-> TRUE,
   value |-> [from |-> m.from, to |-> m.to, headers |-> m.headers,
              rawEmail |-> m.text]]

MalformedBody ==
  [json |-> FALSE,
   value |-> [from |-> "", to |-> "", headers |-> NoHeaders, rawEmail |-> <<>>]]

NoMessage == RPCEmailMessage("", "", <<>>, NoHeaders)

\* mutant: the raw stream is read whatever the class of the message
RawEmailOf_NoRpcBranch(message) == ReadText(message.raw)

\* message instanceof RPCEmailMessage ? message.rawEmail : await new Response(message.raw).text()
RawEmailOf(message) ==
  IF message.isRpc THEN message.rawEmail ELSE ReadText(message.raw)

\* message.headers.get("Message-ID")
MessageIdOf(message) == HeadersGet(message.headers, "Message-ID")

\* ------------------------------------------------------- the AI's answers
\* A parsed JSON value: an object with the four properties the code reads
\* (Undefined when the object lacks one), or a primitive.
Obj(ce, t, c, p) ==
  [kind |-> "object", codeExist |-> ce, title |-> t, code |-> c, topic |-> p]

Prim(k) ==
  [kind |-> k, codeExist |-> Undefined, title |-> Undefined,
   code |-> Undefined, topic |-> Undefined]

JsNull == Prim("null")

\* mutant: an object that reports no code is retried like a missing answer
IsFalsyValue_RetryNoCode(v) ==
  v.kind \in {"null", "false", "zero", "emptystring"} \/ v.codeExist = "num:0"

\* mutant: a result with codeExist = 1 that lacks a field is retried too
IsFalsyValue_RetryIncomplete(v) ==
  \/ v.kind \in {"null", "false", "zero", "emptystring"}
  \/ v.codeExist = "num:1" /\ Undefined \in {v.title, v.code, v.topic}

\* mutant: the loop and the result test compare with null only
IsFalsyValue_NullOnly(v) == v.kind = "null"

\* !extractedData
IsFalsyValue(v) == v.kind \in {"null", "false", "zero", "emptystring"}

\* The JSON documents of the model, by their text; numbers are "num:<n>",
\* strings inside a document are "str:<s>" where the code compares types.
JsonDocs ==
  [d \in {"null", "false", "0", "\"\"",
          "{\"codeExist\":0}",
          "{\"codeExist\":1}",
          "{\"title\":\"Netflix\",\"code\":\"123456\",\"topic\":\"login\",\"codeExist\":1}",
          "{\"title\":\"Netflix\",\"code\":\"123456, https://n.example/verify\",\"topic\":\"login\",\"codeExist\":1}",
          "{\"code\":\"\",\"topic\":\"login\",\"codeExist\":1}",
          "{\"title\":\"Netflix\",\"code\":\"123456,https://n.example/verify\",\"topic\":\"login\",\"codeExist\":1}",
          "{\"title\":\"Netflix\",\"code\":\"123456,https://n.example/v?a=1,2\",\"topic\":\"login\",\"codeExist\":1}",
          "{\"title\":\"Netflix\",\"code\":\"https://n.example/verify\",\"topic\":\"login\",\"codeExist\":1}",
          "{\"title\":\"Netflix\",\"code\":\"123456\",\"topic\":\"login\",\"codeExist\":\"1\"}"} |->
     CASE d = "null" -> JsNull
       [] d = "false" -> Prim("false")
       [] d = "0" -> Prim("zero")
       [] d = "\"\"" -> Prim("emptystring")
       [] d = "{\"codeExist\":0}" ->
            Obj("num:0", Undefined, Undefined, Undefined)
       [] d = "{\"codeExist\":1}" ->
            Obj("num:1", Undefined, Undefined, Undefined)
       [] d = "{\"title\":\"Netflix\",\"code\":\"123456\",\"topic\":\"login\",\"codeExist\":1}" ->
            Obj("num:1", "Netflix", "123456", "login")
       [] d = "{\"title\":\"Netflix\",\"code\":\"123456, https://n.example/verify\",\"topic\":\"login\",\"codeExist\":1}" ->
            Obj("num:1", "Netflix", "123456, https://n.example/verify", "login")
       [] d = "{\"code\":\"\",\"topic\":\"login\",\"codeExist\":1}" ->
            Obj("num:1", Undefined, "", "login")
       [] d = "{\"title\":\"Netflix\",\"code\":\"123456,https://n.example/verify\",\"topic\":\"login\",\"codeExist\":1}" ->
            Obj("num:1", "Netflix", "123456,https://n.example/verify", "login")
       [] d = "{\"title\":\"Netflix\",\"code\":\"123456,https://n.example/v?a=1,2\",\"topic\":\"login\",\"codeExist\":1}" ->
            Obj("num:1", "Netflix", "123456,https://n.example/v?a=1,2", "login")
       [] d = "{\"title\":\"Netflix\",\"code\":\"https://n.example/verify\",\"topic\":\"login\",\"codeExist\":1}" ->
            Obj("num:1", "Netflix", "https://n.example/verify", "login")
       [] OTHER ->
            Obj("str:1", "Netflix", "123456", "login")]

\* The answer text is a sequence of lexemes: the opening fence (three
\* backquotes and the word json), the closing fence (three backquotes),
\* white space, JSON documents, and other words.  The backquote is written
\* as ' in the lexemes' names.
OpenFence == "'''json"
CloseFence == "'''"

\* a closing fence also matches the first three characters of an opening one
IsCloseFence(tok) == tok \in {CloseFence, OpenFence}

\* extractedText.match(/'''json\s*([\s\S]*?)\s*'''/): <<matched, group 1>>
JsonMatch(text) ==
  LET opens == {i \in 1..Len(text) : text[i] = OpenFence}
  IN  IF opens = {} THEN <<FALSE, <<>>>>
      ELSE LET i == CHOOSE k \in opens : \A j \in opens : k <= j
               closes == {j \in (i + 1)..Len(text) : IsCloseFence(text[j])}
           IN  IF closes = {} THEN <<FALSE, <<>>>>
               ELSE LET j == CHOOSE k \in closes : \A l \in closes : k <= l
                    IN  <<TRUE, Trim(SubSeq(text, i + 1, j - 1))>>

\* lines 219-227: the interior of the fenced block, else the trimmed text
ExtractJsonText(text) ==
  LET m == JsonMatch(text)
  IN  IF m[1] /\ m[2] # <<>> THEN Trim(m[2]) ELSE Trim(text)

\* a JSON document one of whose strings holds three backquotes: the text
\* before them, the backquotes, the text after them
DocWithFence ==
  <<"{\"title\":\"Netflix\",\"code\":\"", CloseFence, "\",\"topic\":\"login\",\"codeExist\":1}">>

\* JSON.parse: <<parsed, value>>; white space around the document is allowed
JsonParse(text) ==
  LET t == Trim(text)
  IN  IF Len(t) = 1 /\ t[1] \in DOMAIN JsonDocs
      THEN <<TRUE, JsonDocs[t[1]]>>
      ELSE IF t = DocWithFence
           THEN <<TRUE, Obj("num:1", "Netflix", CloseFence, "login")>>
           ELSE <<FALSE, JsNull>>

\* What one AI request can come back with:
\*   fetch    "ok" | "reject"     (fetch() resolves or rejects)
\*   body     TRUE iff aiResponse.json() decodes the body
\*   envelope TRUE iff aiData.candidates[0].content.parts[0] is there
\*   hasText  TRUE iff parts[0].text is a string
AiResponse(f, b, e, h, t) ==
  [text |-> t, fetch |-> f, body |-> b, envelope |-> e, hasText |-> h]

AiReject == AiResponse("reject", FALSE, FALSE, FALSE, <<>>)
AiBadBody == AiResponse("ok", FALSE, FALSE, FALSE, <<>>)
AiNoEnvelope == AiResponse("ok", TRUE, FALSE, FALSE, <<>>)
AiNoText == AiResponse("ok", TRUE, TRUE, FALSE, <<>>)
AiText(t) == AiResponse("ok", TRUE, TRUE, TRUE, t)

AiResponses ==
  { AiReject, AiBadBody, AiNoEnvelope, AiNoText,
    AiText(<<"Sorry,", " ", "no", " ", "JSON">>),
    AiText(<<"null">>),
    AiText(<<OpenFence, "\n", "{\"codeExist\":0}", "\n", CloseFence>>),
    AiText(<<" ", "{\"title\":\"Netflix\",\"code\":\"123456\",\"topic\":\"login\",\"codeExist\":1}", "\n">>),
    AiText(<<"Here:", "\n", OpenFence, "\n", "{\"code\":\"\",\"topic\":\"login\",\"codeExist\":1}", "\n", CloseFence>>),
    AiText(<<"{\"title\":\"Netflix\",\"code\":\"123456\",\"topic\":\"login\",\"codeExist\":\"1\"}">>) }

\* a JSON text J as the AI may return it: in a fenced block labelled json,
\* or bare with white space around it
Fenced(J) == <<OpenFence, "\n">> \o J \o <<"\n", CloseFence>>

Padded(J) == <<" ">> \o J \o <<"\n">>

\* mutant: a rejected fetch or an undecodable body is caught inside the loop
\* and counts as one more failed attempt
AiThrows_CaughtInLoop(resp) == resp.envelope /\ ~resp.hasText

\* an AI attempt throws: fetch rejects, the body is no JSON, or text is
\* undefined so that extractedText.match throws a TypeError
AiThrows(resp) ==
  \/ resp.fetch = "reject"
  \/ ~resp.body
  \/ (resp.envelope /\ ~resp.hasText)

\* lines 207-240 for an attempt that does not throw: the new extractedData
\* (null stays null when the envelope is missing or JSON.parse throws)
ParseAiData(resp) ==
  IF resp.envelope
  THEN LET p == JsonParse(ExtractJsonText(resp.text))
       IN  IF p[1] THEN p[2] ELSE JsNull
  ELSE JsNull

\* mutant: any object counts as a code (the test of codeExist is dropped)
CodeExists_AnyObject(data) == data.kind = "object"

\* mutant: extractedData.codeExist == 1, which "1" and true satisfy too
CodeExists_Loose(data) == data.codeExist \in {"num:1", "str:1", "bool:true"}

\* extractedData.codeExist === 1
CodeExists(data) == data.codeExist = "num:1"

\* mutant: if (extractedData?.codeExist !== 0) { ...save and notify... }
ResultKind_NoNullCheck(data) ==
  IF data.codeExist # "num:0" THEN "code" ELSE "nocode"

\* lines 253-306: what the run does with the result of the loop
ResultKind(data) ==
  IF ~IsFalsyValue(data)
  THEN IF CodeExists(data) THEN "code" ELSE "nocode"
  ELSE "failed"

\* ------------------------------------------------------ the reporting page
\* The characters of a stored code, as far as the page looks at them: the
\* commas are lexemes of their own.
CodeChars(x) ==
  CASE x = "123456, https://n.example/verify" ->
         <<"123456", ",", " ", "https://n.example/verify">>
    [] x = "123456,https://n.example/verify" ->
         <<"123456", ",", "https://n.example/verify">>
    [] x = "123456,https://n.example/v?a=1,2" ->
         <<"123456", ",", "https://n.example/v?a=1", ",", "2">>
    [] x = "https://n.example/v?a=1,2" ->
         <<"https://n.example/v?a=1", ",", "2">>
    [] x = "" -> <<>>
    [] OTHER -> <<x>>

\* env.FrontEndAdminID, env.FrontEndAdminPassword
FrontEndAdminID == <<"admin">>

FrontEndAdminPassword == <<"pw">>

\* the requests of the model: the Authorization header's scheme and, for
\* Basic, the decoded credentials
Requests ==
  { [scheme |-> "none", credentials |-> <<>>],
    [scheme |-> "Bearer", credentials |-> <<"token">>],
    [scheme |-> "Basic", credentials |-> <<"admin", ":", "pw">>],
    [scheme |-> "Basic", credentials |-> <<"admin", ":", "wrong">>] }

\* lines 34-74: the request passes the three checks
Authorized(request) ==
  /\ request.scheme = "Basic"
  /\ LET parts == Split(request.credentials, ":")
     IN  /\ parts[1] = FrontEndAdminID
         /\ Len(parts) > 1 /\ parts[2] = FrontEndAdminPassword

NoResponse == [status |-> 0, rows |-> <<>>]

\* ------------------------------------------------------------------ state
\* the two slots in which invocations of email()/rpcEmail() run
Runs == {"r1", "r2"}

\* mutant: the loop runs while retryCount <= maxRetries
maxRetries_OffByOne == 3 + 1

\* const maxRetries = 3
maxRetries == 3

VARIABLES
  env,            \* this.env: the deployment's configuration
  raw_mails,      \* table raw_mails, in insertion order
  code_mails,     \* table code_mails, in insertion order
  invocations,    \* number of invocations started so far
  pc,             \* where each run stands: the await it is suspended at
  message,        \* email()'s argument
  useBark,        \* local useBark
  rawEmail,       \* local rawEmail
  message_id,     \* local message_id
  retryCount,     \* local retryCount
  extractedData,  \* local extractedData
  title,          \* local title
  code,           \* local code
  topic,          \* local topic
  barkTokens,     \* local barkTokens
  barkIndex,      \* position of the for-of loop over barkTokens
  rejected,       \* the reasons given to message.setReject, in order
  log,            \* the console.log / console.error calls of the run
  thrown,         \* the exception that left the entry point, if any
  sent,           \* history: the email the invocation was started for
  aiHistory,      \* history: what each AI request of the run came back with
  dbHistory,      \* history: the outcome of each INSERT of the run
  barkRequests,   \* history: each Bark request of the run and its outcome
  response        \* the Response of the last fetch() of the reporting page

vars ==
  <<env, raw_mails, code_mails, invocations, pc, message, useBark, rawEmail,
    message_id, retryCount, extractedData, title, code, topic, barkTokens,
    barkIndex, rejected, log, thrown, sent, aiHistory, dbHistory,
    barkRequests, response>>

Init ==
  /\ env \in Envs
  /\ raw_mails = <<>>
  /\ code_mails = <<>>
  /\ invocations = 0
  /\ pc = [r \in Runs |-> "idle"]
  /\ message = [r \in Runs |-> NoMessage]
  /\ useBark = [r \in Runs |-> FALSE]
  /\ rawEmail = [r \in Runs |-> <<>>]
  /\ message_id = [r \in Runs |-> Null]
  /\ retryCount = [r \in Runs |-> 0]
  /\ extractedData = [r \in Runs |-> JsNull]
  /\ title = [r \in Runs |-> Undefined]
  /\ code = [r \in Runs |-> Undefined]
  /\ topic = [r \in Runs |-> Undefined]
  /\ barkTokens = [r \in Runs |-> <<>>]
  /\ barkIndex = [r \in Runs |-> 0]
  /\ rejected = [r \in Runs |-> <<>>]
  /\ log = [r \in Runs |-> <<>>]
  /\ thrown = [r \in Runs |-> "none"]
  /\ sent = [r \in Runs |-> NoMail]
  /\ aiHistory = [r \in Runs |-> <<>>]
  /\ dbHistory = [r \in Runs |-> <<>>]
  /\ barkRequests = [r \in Runs |-> <<>>]
  /\ response = NoResponse

\* a fresh invocation in slot r: every local and every history starts anew
Fresh(r) ==
  /\ pc[r] \in {"idle", "done"}
  /\ invocations < MaxInvocations
  /\ invocations' = invocations + 1
  /\ retryCount' = [retryCount EXCEPT ![r] = 0]
  /\ extractedData' = [extractedData EXCEPT ![r] = JsNull]
  /\ title' = [title EXCEPT ![r] = Undefined]
  /\ code' = [code EXCEPT ![r] = Undefined]
  /\ topic' = [topic EXCEPT ![r] = Undefined]
  /\ barkTokens' = [barkTokens EXCEPT ![r] = <<>>]
  /\ barkIndex' = [barkIndex EXCEPT ![r] = 0]
  /\ rejected' = [rejected EXCEPT ![r] = <<>>]
  /\ aiHistory' = [aiHistory EXCEPT ![r] = <<>>]
  /\ dbHistory' = [dbHistory EXCEPT ![r] = <<>>]
  /\ barkRequests' = [barkRequests EXCEPT ![r] = <<>>]
  /\ UNCHANGED <<env, raw_mails, code_mails, response>>

\* mutant: the raw_mails INSERT is left out and the retry loop entered at once
EmailBegin_NoRawInsert(r, m, msg, prelog) ==
  /\ Fresh(r)
  /\ sent' = [sent EXCEPT ![r] = m]
  /\ message' = [message EXCEPT ![r] = msg]
  /\ useBark' = [useBark EXCEPT ![r] = UseBarkOf(env)]
  /\ rawEmail' = [rawEmail EXCEPT ![r] = RawEmailOf(msg)]
  /\ message_id' = [message_id EXCEPT ![r] = MessageIdOf(msg)]
  /\ log' = [log EXCEPT ![r] = prelog]
  /\ thrown' = [thrown EXCEPT ![r] = "none"]
  /\ pc' = [pc EXCEPT ![r] = "aiCall"]

\* email(), lines 130-142: normalise the message and issue the raw_mails
\* INSERT; prelog is what the entry point logged before calling email()
EmailBegin(r, m, msg, prelog) ==
  /\ Fresh(r)
  /\ sent' = [sent EXCEPT ![r] = m]
  /\ message' = [message EXCEPT ![r] = msg]
  /\ useBark' = [useBark EXCEPT ![r] = UseBarkOf(env)]
  /\ rawEmail' = [rawEmail EXCEPT ![r] = RawEmailOf(msg)]
  /\ message_id' = [message_id EXCEPT ![r] = MessageIdOf(msg)]
  /\ log' = [log EXCEPT ![r] = prelog]
  /\ thrown' = [thrown EXCEPT ![r] = "none"]
  /\ pc' = [pc EXCEPT ![r] = "rawInsert"]

\* the platform delivers an email: email(message)
Email(r, m) == EmailBegin(r, m, DirectMessage(m), <<>>)

\* rpcEmail(requestBody), lines 313-320, called with the serialised mail m
RpcEmail(r, m, requestBody) ==
  IF requestBody.json
  THEN LET bodyObject == requestBody.value
           headers == NewHeaders(bodyObject.headers)
       IN  EmailBegin(r, m,
             RPCEmailMessage(bodyObject.from, bodyObject.to,
                             bodyObject.rawEmail, headers),
             <<<<"log", "Received RPC email , request body:">>>>)
  ELSE \* JSON.parse(requestBody) throws: email() is never called
       /\ Fresh(r)
       /\ sent' = [sent EXCEPT ![r] = NoMail]
       /\ message' = [message EXCEPT ![r] = NoMessage]
       /\ useBark' = [useBark EXCEPT ![r] = FALSE]
       /\ rawEmail' = [rawEmail EXCEPT ![r] = <<>>]
       /\ message_id' = [message_id EXCEPT ![r] = Null]
       /\ log' = [log EXCEPT ![r] = <<<<"log", "Received RPC email , request body:">>>>]
       /\ thrown' = [thrown EXCEPT ![r] = "rpcEmail: JSON.parse"]
       /\ pc' = [pc EXCEPT ![r] = "done"]

\* mutant: the message is kept in a field of the worker that a later
\* invocation overwrites (r2's, once r2 has begun)
RawRow_SharedMessage(r) ==
  LET o == IF pc["r2"] # "idle" THEN "r2" ELSE r
  IN  [raw |-> rawEmail[r], message_id |-> message_id[r],
       from_addr |-> message[o].from, to_addr |-> message[o].to]

\* the rows the two INSERT statements bind
RawRow(r) ==
  [raw |-> rawEmail[r], message_id |-> message_id[r],
   from_addr |-> message[r].from, to_addr |-> message[r].to]

\* mutant: from and to are bound in each other's place
CodeRow_Swapped(r) ==
  [code |-> code[r], topic |-> topic[r], message_id |-> message_id[r],
   from_addr |-> message[r].to, to_addr |-> message[r].from,
   from_org |-> title[r]]

CodeRow(r) ==
  [code |-> code[r], topic |-> topic[r], message_id |-> message_id[r],
   from_addr |-> message[r].from, to_addr |-> message[r].to,
   from_org |-> title[r]]

\* mutant: the second setReject repeats the text of the first
RejectReason_CopyPaste(what, msg) ==
  [from |-> msg.from, to |-> msg.to, what |-> "Failed to save message"]

\* the argument of message.setReject
RejectReason(what, msg) == [from |-> msg.from, to |-> msg.to, what |-> what]

\* what a D1 run() can do: resolve with success, resolve without, reject
DbOutcomes == {"success", "failure", "throw"}

\* lines 138-148 and the entry into the retry loop (182-186)
RawInsert(r, outcome) ==
  /\ pc[r] = "rawInsert"
  /\ dbHistory' = [dbHistory EXCEPT ![r] = Append(@, <<"raw_mails", outcome, RawRow(r)>>)]
  /\ raw_mails' = IF outcome = "success" THEN Append(raw_mails, RawRow(r))
                  ELSE raw_mails
  /\ IF outcome = "throw"
     THEN \* the INSERT is outside the try block: email() rejects
          /\ thrown' = [thrown EXCEPT ![r] = "email: raw_mails INSERT"]
          /\ pc' = [pc EXCEPT ![r] = "done"]
          /\ UNCHANGED <<rejected, log>>
     ELSE /\ IF outcome = "failure"
             THEN /\ rejected' = [rejected EXCEPT ![r] =
                        Append(@, RejectReason("Failed to save message", message[r]))]
                  /\ log' = [log EXCEPT ![r] =
                        Append(@, <<"log", "Failed to save message">>)]
             ELSE UNCHANGED <<rejected, log>>
          /\ pc' = [pc EXCEPT ![r] = "aiCall"]
          /\ UNCHANGED thrown
  /\ UNCHANGED <<env, code_mails, invocations, message, useBark, rawEmail,
                 message_id, retryCount, extractedData, title, code, topic,
                 barkTokens, barkIndex, sent, aiHistory, barkRequests, response>>

\* the console calls of one attempt, lines 205-240
AttemptLog(resp, n) ==
  IF resp.fetch = "reject" \/ ~resp.body THEN <<>>
  ELSE <<<<"log", "AI response attempt", n>>>> \o
       (IF ~resp.envelope
        THEN <<<<"error", "AI response is missing expected data structure">>>>
        ELSE <<<<"log", "Extracted Text before parsing:">>>> \o
             (IF ~resp.hasText THEN <<>>
              ELSE LET m == JsonMatch(resp.text)
                       t == ExtractJsonText(resp.text)
                   IN  (IF m[1] /\ m[2] # <<>>
                        THEN <<<<"log", "Extracted JSON Text:">>>>
                        ELSE <<<<"log", "Assuming entire text is JSON:">>>>) \o
                       (IF JsonParse(t)[1]
                        THEN <<<<"log", "Parsed Extracted Data:">>>>
                        ELSE <<<<"error", "JSON parsing error:">>,
                               <<"log", "Problematic JSON Text:">>>>)))

\* mutant: an empty catch block
CatchLog_Silent == <<>>

\* the catch block of email(), lines 307-309
CatchLog == <<<<"error", "Error calling AI or saving to database:">>>>

\* One pass of the retry loop (lines 186-250), and, when the loop ends, the
\* handling of the result up to the next await (lines 253-264, 301-306).
AiAttempt(r, resp) ==
  /\ pc[r] = "aiCall"
  /\ aiHistory' = [aiHistory EXCEPT ![r] = Append(@, resp)]
  /\ LET n == retryCount[r] + 1
         data == ParseAiData(resp)
         l1 == log[r] \o AttemptLog(resp, n)
     IN  IF AiThrows(resp)
         THEN /\ log' = [log EXCEPT ![r] = l1 \o CatchLog]
              /\ pc' = [pc EXCEPT ![r] = "done"]
              /\ UNCHANGED <<retryCount, extractedData, title, code, topic>>
         ELSE /\ extractedData' = [extractedData EXCEPT ![r] = data]
              /\ retryCount' = [retryCount EXCEPT ![r] =
                    IF IsFalsyValue(data) THEN n ELSE @]
              /\ IF IsFalsyValue(data) /\ n < maxRetries
                 THEN \* line 245, and the loop goes round
                      /\ log' = [log EXCEPT ![r] =
                            l1 \o <<<<"log", "Retrying AI request...">>>>]
                      /\ pc' = [pc EXCEPT ![r] = "aiCall"]
                      /\ UNCHANGED <<title, code, topic>>
                 ELSE LET l2 == IF IsFalsyValue(data)
                                THEN l1 \o <<<<"error", "Max retries reached. Unable to get valid AI response.">>>>
                                ELSE l1
                          kind == ResultKind(data)
                      IN  IF kind = "code"
                          THEN /\ title' = [title EXCEPT ![r] =
                                    OrElse(data.title, "Unknown Organization")]
                               /\ code' = [code EXCEPT ![r] =
                                    OrElse(data.code, "No Code Found")]
                               /\ topic' = [topic EXCEPT ![r] =
                                    OrElse(data.topic, "No Topic Found")]
                               /\ log' = [log EXCEPT ![r] = l2]
                               /\ pc' = [pc EXCEPT ![r] = "codeInsert"]
                          ELSE /\ log' = [log EXCEPT ![r] = l2 \o
                                    (IF kind = "nocode"
                                     THEN <<<<"log", "No code found in this email, skipping Bark notification.">>>>
                                     ELSE <<<<"error", "Failed to extract data from AI response after retries.">>>>)]
                               /\ pc' = [pc EXCEPT ![r] = "done"]
                               /\ UNCHANGED <<title, code, topic>>
  /\ UNCHANGED <<env, raw_mails, code_mails, invocations, message, useBark,
                 rawEmail, message_id, barkTokens, barkIndex, rejected, thrown,
                 sent, dbHistory, barkRequests, response>>

\* lines 260-283: the code_mails INSERT returns; the Bark loop is entered
CodeInsert(r, outcome) ==
  /\ pc[r] = "codeInsert"
  /\ dbHistory' = [dbHistory EXCEPT ![r] = Append(@, <<"code_mails", outcome, CodeRow(r)>>)]
  /\ code_mails' = IF outcome = "success" THEN Append(code_mails, CodeRow(r))
                   ELSE code_mails
  /\ IF outcome = "throw"
     THEN /\ log' = [log EXCEPT ![r] = @ \o CatchLog]
          /\ pc' = [pc EXCEPT ![r] = "done"]
          /\ UNCHANGED <<rejected, barkTokens, barkIndex>>
     ELSE /\ IF outcome = "failure"
             THEN /\ rejected' = [rejected EXCEPT ![r] =
                        Append(@, RejectReason("Failed to save extracted code for message", message[r]))]
                  /\ log' = [log EXCEPT ![r] =
                        Append(@, <<"log", "Failed to save extracted code for message">>)]
             ELSE UNCHANGED <<rejected, log>>
          /\ IF useBark[r]
             THEN LET tokens == ParseBarkTokens(env.barkTokens)
                  IN  /\ barkTokens' = [barkTokens EXCEPT ![r] = tokens]
                      /\ barkIndex' = [barkIndex EXCEPT ![r] = 1]
                      /\ pc' = [pc EXCEPT ![r] =
                            IF Len(tokens) >= 1 THEN "bark" ELSE "done"]
             ELSE /\ pc' = [pc EXCEPT ![r] = "done"]
                  /\ UNCHANGED <<barkTokens, barkIndex>>
  /\ UNCHANGED <<env, raw_mails, invocations, message, useBark, rawEmail,
                 message_id, retryCount, extractedData, title, code, topic,
                 thrown, sent, aiHistory, barkRequests, response>>

\* what a Bark request can come back with: 2xx with a JSON body, 2xx with a
\* body that is no JSON, another status, or a rejected fetch
BarkOutcomes == {"ok", "okBadBody", "httpError", "reject"}

\* `${barkUrl}/${token}/${barkUrlEncodedTitle}/${barkUrlEncodedCode}`
BarkRequestUrl(r, token) ==
  <<env.barkUrl, token, EncodeURIComponent(title[r]), EncodeURIComponent(code[r])>>

\* after the request for one token: does the for-of loop go on?
BarkLoopGoesOn(outcome) == outcome \in {"ok", "httpError"}

\* one pass of the for-of loop, lines 283-297
BarkCall(r, outcome) ==
  /\ pc[r] = "bark"
  /\ LET token == barkTokens[r][barkIndex[r]]
     IN  /\ barkRequests' = [barkRequests EXCEPT ![r] =
               Append(@, [outcome |-> outcome, url |-> BarkRequestUrl(r, token)])]
         /\ log' = [log EXCEPT ![r] = @ \o
               (CASE outcome = "ok" ->
                       <<<<"log", "Successfully sent notification to Bark">>,
                         <<"log", "Bark response:">>>>
                  [] outcome = "okBadBody" ->
                       <<<<"log", "Successfully sent notification to Bark">>>> \o CatchLog
                  [] outcome = "httpError" ->
                       <<<<"error", "Failed to send notification to Bark">>>>
                  [] OTHER -> CatchLog)]
  /\ IF BarkLoopGoesOn(outcome) /\ barkIndex[r] < Len(barkTokens[r])
     THEN /\ barkIndex' = [barkIndex EXCEPT ![r] = @ + 1]
          /\ UNCHANGED pc
     ELSE /\ pc' = [pc EXCEPT ![r] = "done"]
          /\ UNCHANGED barkIndex
  /\ UNCHANGED <<env, raw_mails, code_mails, invocations, message, useBark,
                 rawEmail, message_id, retryCount, extractedData, title, code,
                 topic, barkTokens, rejected, thrown, sent, aiHistory, dbHistory,
                 response>>

\* row.code.startsWith('http')
StartsWithHttp(chars) ==
  chars # <<>> /\ Head(chars) \in {"https://n.example/verify", "https://n.example/v?a=1"}

\* lines 83-93: codeLinkContent, as the parts it is built from (href and
\* topic are the target and the text of the hyperlink)
CodeLinkContent(row) ==
  LET codeLinkParts == Split(CodeChars(row.code), ",")
  IN  IF Len(codeLinkParts) > 1
      THEN [kind |-> "codeAndLink", code |-> codeLinkParts[1],
            topic |-> row.topic, href |-> codeLinkParts[2]]
      ELSE IF StartsWithHttp(CodeChars(row.code))
           THEN [kind |-> "link", code |-> <<>>,
                 topic |-> row.topic, href |-> CodeChars(row.code)]
           ELSE [kind |-> "text", code |-> CodeChars(row.code),
                 topic |-> "", href |-> <<>>]

\* lines 95-101: one <tr> of the page
TableRow(row) ==
  [topic |-> row.topic, to_addr |-> row.to_addr, from_org |-> row.from_org,
   codeLinkContent |-> CodeLinkContent(row)]

\* fetch(request), lines 26-125: the reporting page; the SELECT returns the
\* rows of code_mails, latest first, or throws
Fetch(request, outcome) ==
  /\ response' =
       IF ~Authorized(request) THEN [status |-> 401, rows |-> <<>>]
       ELSE IF outcome = "throw" THEN [status |-> 500, rows |-> <<>>]
       ELSE [status |-> 200,
             rows |-> [i \in 1..Len(code_mails) |->
                         TableRow(code_mails[Len(code_mails) + 1 - i])]]
  /\ UNCHANGED <<env, raw_mails, code_mails, invocations, pc, message, useBark,
                 rawEmail, message_id, retryCount, extractedData, title, code,
                 topic, barkTokens, barkIndex, rejected, log, thrown, sent,
                 aiHistory, dbHistory, barkRequests>>

\* ---------------------------------------------------------- specification
Deliver(r) == \E m \in Mails : Email(r, m)

Rpc(r) ==
  \/ \E m \in Mails : RpcEmail(r, m, RpcBody(m))
  \/ RpcEmail(r, NoMail, MalformedBody)

SaveRaw(r) == \E o \in DbOutcomes : RawInsert(r, o)

Extract(r, responses) == \E resp \in responses : AiAttempt(r, resp)

SaveCode(r) == \E o \in DbOutcomes : CodeInsert(r, o)

Notify(r, outcomes) == \E o \in outcomes : BarkCall(r, o)

\* Any sequence of invocations, one at a time (slot r1)
Next ==
  \/ Deliver("r1")
  \/ Rpc("r1")
  \/ SaveRaw("r1")
  \/ Extract("r1", AiResponses)
  \/ SaveCode("r1")
  \/ Notify("r1", BarkOutcomes)

Spec == Init /\ [][Next]_vars

\* Two invocations whose steps interleave: r1 is delivered by the platform,
\* r2 arrives through rpcEmail.  The AI answers and the Bark outcomes are
\* drawn from one representative of each kind the code distinguishes.
PairAiResponses ==
  { AiReject,
    AiText(<<"Sorry,", " ", "no", " ", "JSON">>),
    AiText(<<OpenFence, "\n", "{\"codeExist\":0}", "\n", CloseFence>>),
    AiText(<<" ", "{\"title\":\"Netflix\",\"code\":\"123456\",\"topic\":\"login\",\"codeExist\":1}", "\n">>) }

PairBarkOutcomes == {"ok", "reject"}

NextPair ==
  \/ Deliver("r1")
  \/ \E m \in Mails : RpcEmail("r2", m, RpcBody(m))
  \/ \E r \in Runs :
       \/ SaveRaw(r)
       \/ Extract(r, PairAiResponses)
       \/ SaveCode(r)
       \/ Notify(r, PairBarkOutcomes)

SpecPair == Init /\ [][NextPair]_vars

\* The pipeline and the reporting page: the AI answers carry a code, a
\* link, or both in one code field.
ReportAiResponses ==
  { AiText(<<"{\"title\":\"Netflix\",\"code\":\"123456\",\"topic\":\"login\",\"codeExist\":1}">>),
    AiText(<<"{\"title\":\"Netflix\",\"code\":\"123456, https://n.example/verify\",\"topic\":\"login\",\"codeExist\":1}">>),
    AiText(<<"{\"title\":\"Netflix\",\"code\":\"123456,https://n.example/verify\",\"topic\":\"login\",\"codeExist\":1}">>),
    AiText(<<"{\"title\":\"Netflix\",\"code\":\"123456,https://n.example/v?a=1,2\",\"topic\":\"login\",\"codeExist\":1}">>),
    AiText(<<"{\"title\":\"Netflix\",\"code\":\"https://n.example/verify\",\"topic\":\"login\",\"codeExist\":1}">>),
    AiText(<<"{\"code\":\"\",\"topic\":\"login\",\"codeExist\":1}">>) }

View == \E request \in Requests : \E o \in {"ok", "throw"} : Fetch(request, o)

NextReport ==
  \/ Deliver("r1")
  \/ SaveRaw("r1")
  \/ Extract("r1", ReportAiResponses)
  \/ SaveCode("r1")
  \/ Notify("r1", PairBarkOutcomes)
  \/ View

SpecReport == Init /\ [][NextReport]_vars

\* The pipeline with each of a few JSON texts answered in each of its
\* forms: fenced, bare, and bare with white space around.
JsonTexts ==
  { <<"{\"codeExist\":0}">>,
    <<"{\"codeExist\":1}">>,
    <<"{\"title\":\"Netflix\",\"code\":\"123456\",\"topic\":\"login\",\"codeExist\":1}">>,
    DocWithFence }

ParseAiResponses ==
  UNION { {AiText(Fenced(J)), AiText(J), AiText(Padded(J))} : J \in JsonTexts }

NextParse ==
  \/ Deliver("r1")
  \/ SaveRaw("r1")
  \/ Extract("r1", ParseAiResponses)
  \/ SaveCode("r1")
  \/ Notify("r1", PairBarkOutcomes)

SpecParse == Init /\ [][NextParse]_vars

\* The pipeline with answers that are JSON for a falsy value, next to one
\* that is no JSON and one that holds a code.
FalsyAiResponses ==
  { AiText(<<"null">>),
    AiText(<<"false">>),
    AiText(<<OpenFence, "\n", "0", "\n", CloseFence>>),
    AiText(<<"\"\"">>),
    AiText(<<"Sorry,", " ", "no", " ", "JSON">>),
    AiText(<<"{\"title\":\"Netflix\",\"code\":\"123456\",\"topic\":\"login\",\"codeExist\":1}">>) }

NextFalsy ==
  \/ Deliver("r1")
  \/ SaveRaw("r1")
  \/ Extract("r1", FalsyAiResponses)
  \/ SaveCode("r1")
  \/ Notify("r1", PairBarkOutcomes)

SpecFalsy == Init /\ [][NextFalsy]_vars

\* ------------------------------------------------------------- properties
\* the number of AI requests the run has made
AiCalls(r) == Len(aiHistory[r])

\* the run has left the retry loop (or never entered it)
PastLoop(r) == pc[r] \in {"codeInsert", "bark", "done"}

\* the INSERT attempts of the run on one table, and those that persisted
Attempts(r, table) ==
  SelectSeq(dbHistory[r], LAMBDA e : e[1] = table)

Persisted(r, table) ==
  SelectSeq(dbHistory[r], LAMBDA e : e[1] = table /\ e[2] = "success")

\* the response has the expected envelope and its text parses as JSON
ParsesAsJson(resp) ==
  /\ resp.fetch = "ok" /\ resp.body /\ resp.envelope /\ resp.hasText
  /\ JsonParse(ExtractJsonText(resp.text))[1]

\* the value such a response parses to
ParsedValue(resp) == JsonParse(ExtractJsonText(resp.text))[2]

\* ... and the value is not null, false, 0 or ""
ParsesToTruthy(resp) ==
  ParsesAsJson(resp) /\ ParsedValue(resp).kind \notin {"null", "false", "zero", "emptystring"}

\* the response is malformed: no exception, but the envelope is missing or
\* the text is not JSON
Malformed(resp) ==
  /\ resp.fetch = "ok" /\ resp.body
  /\ ~resp.envelope \/ (resp.hasText /\ ~JsonParse(ExtractJsonText(resp.text))[1])

\* the index of the first response of h that parses as JSON (0 when none does)
FirstJsonIndex(h) ==
  IF \E i \in 1..Len(h) : ParsesAsJson(h[i])
  THEN CHOOSE i \in 1..Len(h) :
         ParsesAsJson(h[i]) /\ \A j \in 1..(i - 1) : ~ParsesAsJson(h[j])
  ELSE 0

\* C1 as stated: the AI service is called at most 3 times, and the number of
\* calls is the index of the first attempt whose response has the envelope
\* and parses as JSON.
C1_CallsUntilFirstJson ==
  \A r \in Runs :
    /\ AiCalls(r) <= 3
    /\ (PastLoop(r) /\ FirstJsonIndex(aiHistory[r]) # 0)
         => AiCalls(r) = FirstJsonIndex(aiHistory[r])

\* C1 amended: the AI service is called at most 3 times; the calls stop at
\* the first attempt whose response has the envelope and parses as JSON to a
\* truthy value, an attempt that neither does so nor throws is followed by
\* another call while fewer than 3 were made; with unparseable answers on
\* attempts 1 and 2 and a JSON object on attempt 3 extraction succeeds after
\* exactly 3 calls.
C1_CallsUntilFirstTruthyJson ==
  \A r \in Runs :
    LET h == aiHistory[r]
    IN  /\ AiCalls(r) <= 3
        /\ \A i \in 1..(Len(h) - 1) : ~ParsesToTruthy(h[i]) /\ ~AiThrows(h[i])
        /\ (PastLoop(r) /\ h # <<>>)
             => \/ ParsesToTruthy(Last(h))
                \/ AiThrows(Last(h))
                \/ AiCalls(r) = 3
        /\ (Len(h) = 3 /\ Malformed(h[1]) /\ Malformed(h[2]) /\ ParsesToTruthy(h[3]))
             => /\ PastLoop(r)
                /\ extractedData[r] = ParsedValue(h[3])
                /\ retryCount[r] = 2

\* C1 witness: two unparseable answers, then a JSON object, and the run went on
C1_Witness ==
  \E r \in Runs :
    /\ AiCalls(r) = 3
    /\ Malformed(aiHistory[r][1]) /\ aiHistory[r][1].envelope
    /\ Malformed(aiHistory[r][2]) /\ aiHistory[r][2].envelope
    /\ ParsesToTruthy(aiHistory[r][3])
    /\ pc[r] = "done"
    /\ Len(Persisted(r, "code_mails")) = 1

\* C2: an answer that parses to an object with codeExist = 0 on the first
\* attempt ends the run after exactly one AI call; it is never retried.
C2_NoCodeIsTerminal ==
  \A r \in Runs :
    LET h == aiHistory[r]
    IN  (h # <<>> /\ ParsesAsJson(h[1]) /\ ParsedValue(h[1]).kind = "object"
           /\ ParsedValue(h[1]).codeExist = "num:0")
          => /\ AiCalls(r) = 1
             /\ pc[r] = "done"
             /\ retryCount[r] = 0
             /\ extractedData[r] = ParsedValue(h[1])

\* C2 witness: a finished run whose only AI answer was {"codeExist":0}
C2_Witness ==
  \E r \in Runs :
    /\ pc[r] = "done"
    /\ AiCalls(r) = 1
    /\ ParsesAsJson(aiHistory[r][1])
    /\ ParsedValue(aiHistory[r][1]).codeExist = "num:0"

\* the rows an email's run is to bind: the email's own from, to, text and
\* Message-ID header (null when it has none)
MessageIdSent(m) ==
  IF "Message-ID" \in DOMAIN m.headers THEN m.headers["Message-ID"] ELSE Null

ExpectedRawRow(m) ==
  [raw |-> m.text, message_id |-> MessageIdSent(m),
   from_addr |-> m.from, to_addr |-> m.to]

ExpectedCodeRow(m, org, c, t) ==
  [code |-> c, topic |-> t, message_id |-> MessageIdSent(m),
   from_addr |-> m.from, to_addr |-> m.to, from_org |-> org]

InTable(table, row) == \E i \in 1..Len(table) : table[i] = row

\* all three AI attempts of the run came back malformed
AllThreeMalformed(r) ==
  AiCalls(r) = 3 /\ \A i \in 1..3 : Malformed(aiHistory[r][i])

\* C3 as stated: when all 3 attempts are malformed the run persists exactly
\* one raw_mails row, no code_mails row, and makes no notification call.
C3_FailedExtractionRows ==
  \A r \in Runs :
    AllThreeMalformed(r)
      => /\ Len(Persisted(r, "raw_mails")) = 1
         /\ Len(Persisted(r, "code_mails")) = 0
         /\ barkRequests[r] = <<>>

\* C3 amended: when all 3 attempts are malformed the run is over, it has
\* attempted the raw_mails insert exactly once, persisting exactly one
\* raw_mails row when that write succeeded (none when it failed), it has
\* attempted no code_mails insert and made no notification call, whatever
\* the notification flag and the token list.
C3_FailedExtractionAttempts ==
  \A r \in Runs :
    AllThreeMalformed(r)
      => /\ pc[r] = "done"
         /\ Len(Attempts(r, "raw_mails")) = 1
         /\ Attempts(r, "raw_mails")[1][2] = "success"
              => /\ Len(Persisted(r, "raw_mails")) = 1
                 /\ InTable(raw_mails, ExpectedRawRow(sent[r]))
         /\ Attempts(r, "raw_mails")[1][2] # "success"
              => Len(Persisted(r, "raw_mails")) = 0
         /\ Attempts(r, "code_mails") = <<>>
         /\ barkRequests[r] = <<>>

\* C3 witness: three malformed answers, notifications on with two tokens,
\* the raw row stored
C3_Witness ==
  \E r \in Runs :
    /\ AllThreeMalformed(r)
    /\ useBark[r] /\ Len(ParseBarkTokens(env.barkTokens)) = 2
    /\ Len(Persisted(r, "raw_mails")) = 1
    /\ raw_mails # <<>>

IsLogged(r, level, text) ==
  \E i \in 1..Len(log[r]) : log[r][i] = <<level, text>>

NoCodeText == "No code found in this email, skipping Bark notification."
FailedText == "Failed to extract data from AI response after retries."

\* extraction yielded an object with codeExist = 0
YieldsNoCode(r) ==
  /\ pc[r] = "done" /\ AiCalls(r) >= 1
  /\ extractedData[r].kind = "object" /\ extractedData[r].codeExist = "num:0"

\* extraction failed after all retries
FailedAfterRetries(r) ==
  /\ pc[r] = "done" /\ AiCalls(r) = 3
  /\ \A i \in 1..3 : ~ParsesToTruthy(aiHistory[r][i]) /\ ~AiThrows(aiHistory[r][i])

\* C4: with codeExist = 0 the run attempts no code_mails insert, makes no
\* notification call and ends with a console.log, not a console.error, of
\* the outcome; an extraction that failed after all retries ends with a
\* console.error instead.
C4_NoCodeIsNormalOutcome ==
  \A r \in Runs :
    /\ YieldsNoCode(r)
         => /\ Attempts(r, "code_mails") = <<>>
            /\ barkRequests[r] = <<>>
            /\ Last(log[r]) = <<"log", NoCodeText>>
            /\ ~IsLogged(r, "error", FailedText)
            /\ ~IsLogged(r, "error", NoCodeText)
    /\ FailedAfterRetries(r)
         => /\ Last(log[r]) = <<"error", FailedText>>
            /\ ~IsLogged(r, "log", NoCodeText)
            /\ ~IsLogged(r, "log", FailedText)

\* C4 witness: codeExist = 0 arrived after an attempt that had to be retried
C4_Witness ==
  \E r \in Runs :
    /\ YieldsNoCode(r)
    /\ AiCalls(r) = 2
    /\ useBark[r]

\* extraction yielded codeExist = 1 and both writes succeeded
CodeSaved(r) ==
  /\ extractedData[r].kind = "object" /\ extractedData[r].codeExist = "num:1"
  /\ Len(dbHistory[r]) = 2
  /\ dbHistory[r][1][2] = "success" /\ dbHistory[r][2][2] = "success"

\* C5 as stated: the run produces exactly one raw_mails row of the email and
\* exactly one code_mails row with the email's from, to, message id and the
\* extracted title, code and topic.
C5_RowsMatchExtraction ==
  \A r \in Runs :
    CodeSaved(r)
      => /\ Persisted(r, "raw_mails") =
              <<<<"raw_mails", "success", ExpectedRawRow(sent[r])>>>>
         /\ Persisted(r, "code_mails") =
              <<<<"code_mails", "success",
                  ExpectedCodeRow(sent[r], extractedData[r].title,
                                  extractedData[r].code, extractedData[r].topic)>>>>

\* the extracted field, or its placeholder when it is missing or empty
FieldOr(x, placeholder) == IF x \in {Undefined, Null, ""} THEN placeholder ELSE x

\* C5 amended: the run produces exactly one raw_mails row (from, to, raw
\* text, message id of the email) and exactly one code_mails row whose
\* from_addr, to_addr, message_id equal the email's and whose from_org, code
\* and topic equal the extracted title, code and topic, each replaced by its
\* placeholder when the extraction lacks it or gives an empty value.
C5_RowsMatchExtractionOrPlaceholder ==
  \A r \in Runs :
    CodeSaved(r)
      => LET rawRow == ExpectedRawRow(sent[r])
             codeRow == ExpectedCodeRow(sent[r],
                          FieldOr(extractedData[r].title, "Unknown Organization"),
                          FieldOr(extractedData[r].code, "No Code Found"),
                          FieldOr(extractedData[r].topic, "No Topic Found"))
         IN  /\ Persisted(r, "raw_mails") = <<<<"raw_mails", "success", rawRow>>>>
             /\ Persisted(r, "code_mails") = <<<<"code_mails", "success", codeRow>>>>
             /\ InTable(raw_mails, rawRow)
             /\ InTable(code_mails, codeRow)

\* C5 witness: a finished run of the email with a Message-ID, through
\* rpcEmail, all three fields extracted
C5_Witness ==
  \E r \in Runs :
    /\ CodeSaved(r) /\ pc[r] = "done"
    /\ message[r].isRpc
    /\ sent[r] = Mail1
    /\ extractedData[r].title = "Netflix"
    /\ Len(code_mails) = 1 /\ code_mails[1].from_org = "Netflix"
    /\ code_mails[1].message_id = "<m1@a.com>"

\* the run's extraction produced a parsed result with codeExist = 1
ExtractedCode(r) ==
  /\ AiCalls(r) >= 1
  /\ ParsesAsJson(Last(aiHistory[r]))
  /\ ParsedValue(Last(aiHistory[r])) = extractedData[r]
  /\ extractedData[r].kind = "object"
  /\ extractedData[r].codeExist = "num:1"

\* what C6 asks of one step
OnlyCodeExistsInserts ==
  /\ \A r \in Runs :
       (Len(dbHistory'[r]) > Len(dbHistory[r])
          /\ Last(dbHistory'[r])[1] = "code_mails")
         => ExtractedCode(r) /\ extractedData'[r] = extractedData[r]
  /\ code_mails' # code_mails
       => \E r \in Runs :
            /\ ExtractedCode(r)
            /\ Len(dbHistory'[r]) > Len(dbHistory[r])
            /\ Last(dbHistory'[r])[1] = "code_mails"
            /\ code_mails' = Append(code_mails, Last(dbHistory'[r])[3])

\* C6: in every step of every sequence of runs, a code_mails INSERT is
\* attempted only by a run whose extraction produced a parsed result with
\* codeExist = 1, and code_mails changes only by the row of such an attempt.
C6_CodeRowsOnlyForCodeExists == [][OnlyCodeExistsInserts]_vars

\* C6 witness: one run stored a code_mails row, the next one, whose answer
\* had codeExist = "1" (a string), ended without an INSERT
C6_Witness ==
  /\ Len(code_mails) = 1
  /\ invocations = 2
  /\ pc["r1"] = "done"
  /\ AiCalls("r1") = 1
  /\ extractedData["r1"].codeExist = "str:1"
  /\ Attempts("r1", "code_mails") = <<>>

\* C7 as stated: whatever the outcome of the call for one target, every
\* later target still receives its call: a finished run that notified at
\* all has made one call per configured token.
C7_EveryTargetIsCalled ==
  \A r \in Runs :
    (pc[r] = "done" /\ barkRequests[r] # <<>>)
      => /\ Len(barkRequests[r]) = Len(barkTokens[r])
         /\ \A i \in 1..Len(barkRequests[r]) :
              barkRequests[r][i].url[2] = barkTokens[r][i]

InSeq(seq, x) == \E i \in 1..Len(seq) : seq[i] = x

\* C8: a write that reports failure makes the run call setReject with a
\* reason naming sender, recipient and the write that failed, and the run
\* goes on: after a raw_mails failure the AI extraction is attempted and a
\* codeExist = 1 result still leads to the code_mails INSERT; after a
\* code_mails failure the raw_mails row written before is still there and
\* the notification step is still entered.
C8_WriteFailureRejectsAndContinues ==
  \A r \in Runs :
    LET rawA == Attempts(r, "raw_mails")
        codeA == Attempts(r, "code_mails")
    IN  /\ (rawA # <<>> /\ rawA[1][2] = "failure")
             => /\ InSeq(rejected[r],
                         [from |-> sent[r].from, to |-> sent[r].to,
                          what |-> "Failed to save message"])
                /\ IsLogged(r, "log", "Failed to save message")
                /\ pc[r] = "aiCall" \/ AiCalls(r) >= 1
                /\ (PastLoop(r) /\ ExtractedCode(r))
                     => pc[r] = "codeInsert" \/ codeA # <<>>
        /\ (codeA # <<>> /\ codeA[1][2] = "failure")
             => /\ InSeq(rejected[r],
                         [from |-> sent[r].from, to |-> sent[r].to,
                          what |-> "Failed to save extracted code for message"])
                /\ IsLogged(r, "log", "Failed to save extracted code for message")
                /\ rawA[1][2] = "success"
                     => /\ Len(Persisted(r, "raw_mails")) = 1
                        /\ InTable(raw_mails, ExpectedRawRow(sent[r]))
                /\ useBark[r] => pc[r] = "bark" \/ barkRequests[r] # <<>>
        /\ rejected[r] # <<>>
             => \E i \in 1..Len(dbHistory[r]) : dbHistory[r][i][2] = "failure"

\* C8 witness: the raw write failed, extraction and the code_mails INSERT
\* were attempted all the same, and that write failed too
C8_Witness ==
  \E r \in Runs :
    /\ pc[r] = "done"
    /\ Len(dbHistory[r]) = 2
    /\ dbHistory[r][1][2] = "failure" /\ dbHistory[r][2][2] = "failure"
    /\ Len(rejected[r]) = 2
    /\ barkRequests[r] # <<>>

\* the faults a run met: a throwing AI attempt, a throwing INSERT, a Bark
\* request that was rejected or whose body was no JSON
AiFault(r) == \E i \in 1..Len(aiHistory[r]) : AiThrows(aiHistory[r][i])

DbFault(r, table) ==
  \E i \in 1..Len(dbHistory[r]) :
    dbHistory[r][i][1] = table /\ dbHistory[r][i][2] = "throw"

BarkFault(r) ==
  \E i \in 1..Len(barkRequests[r]) :
    barkRequests[r][i].outcome \in {"reject", "okBadBody"}

CatchText == "Error calling AI or saving to database:"

\* C10 as stated: a fault of the AI call, the response decoding, a
\* persistence write or a notification call is caught and logged, and
\* email() completes without propagating it.
C10_EveryFaultIsCaught ==
  \A r \in Runs :
    (AiFault(r) \/ DbFault(r, "raw_mails") \/ DbFault(r, "code_mails") \/ BarkFault(r))
      => /\ pc[r] = "done"
         /\ thrown[r] = "none"
         /\ IsLogged(r, "error", CatchText)

\* C10 amended: a fault raised inside the try block (the AI call, the
\* response decoding, the code_mails write or a notification call) is caught
\* and logged, and email() completes without propagating it and without
\* restarting the run: the faulting step is the run's last, and raw_mails is
\* written at most once.  An exception of the raw_mails write, which is made
\* before the try block, is not caught: email() rejects with it, and no
\* further step is made.
C10_FaultsInTryAreCaught ==
  \A r \in Runs :
    /\ (AiFault(r) \/ DbFault(r, "code_mails") \/ BarkFault(r))
         => /\ pc[r] = "done"
            /\ thrown[r] = "none"
            /\ Last(log[r]) = <<"error", CatchText>>
    /\ AiFault(r)
         => /\ AiThrows(Last(aiHistory[r]))
            /\ Attempts(r, "code_mails") = <<>>
            /\ barkRequests[r] = <<>>
    /\ DbFault(r, "code_mails")
         => /\ Last(dbHistory[r])[2] = "throw"
            /\ barkRequests[r] = <<>>
    /\ BarkFault(r)
         => Last(barkRequests[r]).outcome \in {"reject", "okBadBody"}
    /\ Len(Attempts(r, "raw_mails")) <= 1
    /\ Len(Attempts(r, "code_mails")) <= 1
    /\ DbFault(r, "raw_mails")
         => /\ pc[r] = "done"
            /\ thrown[r] = "email: raw_mails INSERT"
            /\ ~IsLogged(r, "error", CatchText)
            /\ AiCalls(r) = 0
            /\ Len(dbHistory[r]) = 1

\* C10 witness: the code_mails INSERT threw after a retried extraction
C10_Witness ==
  \E r \in Runs :
    /\ pc[r] = "done"
    /\ DbFault(r, "code_mails")
    /\ AiCalls(r) = 2
    /\ thrown[r] = "none"
    /\ useBark[r]

\* the outcomes of the INSERTs and of the Bark requests of a run
InsertOutcomes(r) == [i \in 1..Len(dbHistory[r]) |-> dbHistory[r][i][2]]

RequestOutcomes(r) == [i \in 1..Len(barkRequests[r]) |-> barkRequests[r][i].outcome]

\* two histories agree as far as both go
AgreeOn(h1, h2) == \A i \in 1..Len(h1) : i <= Len(h2) => h1[i] = h2[i]

\* r1 was delivered directly and r2 through rpcEmail, both for the same
\* email, and both are over
SameEmailBothWays ==
  /\ pc["r1"] = "done" /\ pc["r2"] = "done"
  /\ ~message["r1"].isRpc /\ message["r2"].isRpc
  /\ sent["r1"] = sent["r2"] /\ sent["r1"] \in Mails

\* the AI, the database and Bark answered both runs alike
SameAnswers ==
  /\ AgreeOn(aiHistory["r1"], aiHistory["r2"])
  /\ AgreeOn(InsertOutcomes("r1"), InsertOutcomes("r2"))
  /\ AgreeOn(RequestOutcomes("r1"), RequestOutcomes("r2"))

\* C9: an email handed to rpcEmail and the same email delivered directly,
\* given the same AI responses and storage and notification outcomes, make
\* the same INSERTs with the same rows and the same notification calls; a
\* missing Message-ID is stored as null on both paths and is no error.
C9_RpcSameAsDirect ==
  (SameEmailBothWays /\ SameAnswers)
    => /\ rawEmail["r1"] = rawEmail["r2"]
       /\ rawEmail["r2"] = sent["r2"].text
       /\ message_id["r1"] = message_id["r2"]
       /\ message_id["r2"] = MessageIdSent(sent["r2"])
       /\ aiHistory["r1"] = aiHistory["r2"]
       /\ dbHistory["r1"] = dbHistory["r2"]
       /\ barkRequests["r1"] = barkRequests["r2"]
       /\ rejected["r1"] = rejected["r2"]
       /\ thrown["r1"] = thrown["r2"]
       /\ \A r \in Runs :
            /\ \A i \in 1..Len(dbHistory[r]) :
                 /\ dbHistory[r][i][3].message_id = MessageIdSent(sent[r])
                 /\ dbHistory[r][i][3].from_addr = sent[r].from
                 /\ dbHistory[r][i][3].to_addr = sent[r].to
                 /\ dbHistory[r][i][2] = "success"
                      => InTable(IF dbHistory[r][i][1] = "raw_mails"
                                 THEN raw_mails ELSE code_mails,
                                 dbHistory[r][i][3])
            /\ "Message-ID" \notin DOMAIN sent[r].headers
                 => /\ message_id[r] = Null
                    /\ Attempts(r, "raw_mails") # <<>>
                    /\ thrown[r] # "none" => DbFault(r, "raw_mails")

\* C9 witness: the email without a Message-ID went both ways, each run
\* stored both rows and notified two targets
C9_Witness ==
  /\ SameEmailBothWays /\ SameAnswers
  /\ sent["r1"] = Mail2
  /\ Len(raw_mails) = 2 /\ raw_mails[1] = raw_mails[2]
  /\ Len(code_mails) = 2 /\ code_mails[1] = code_mails[2]
  /\ Len(barkRequests["r1"]) = 2
  /\ raw_mails[1].message_id = Null

\* ------------------------------------------------ runs that interleave
Count(seq, x) == Cardinality({i \in 1..Len(seq) : seq[i] = x})

\* the rows the run's INSERTs stored
PersistedRows(r, table) ==
  LET p == Persisted(r, table) IN [i \in 1..Len(p) |-> p[i][3]]

\* the reasons a run alone gives to setReject: one per write that failed
ExpectedRejections(r) ==
  LET failed == SelectSeq(dbHistory[r], LAMBDA e : e[2] = "failure")
  IN  [i \in 1..Len(failed) |->
         [from |-> sent[r].from, to |-> sent[r].to,
          what |-> IF failed[i][1] = "raw_mails"
                   THEN "Failed to save message"
                   ELSE "Failed to save extracted code for message"]]

\* what the run did is what it does alone on its own email, its own AI
\* answers and its own write and notification outcomes
AsWhenAlone(r) ==
  LET h == aiHistory[r]
      d == extractedData[r]
      org == FieldOr(d.title, "Unknown Organization")
      c == FieldOr(d.code, "No Code Found")
      tokens == ParseBarkTokens(env.barkTokens)
  IN  /\ Len(h) <= 3
      /\ \A i \in 1..(Len(h) - 1) : ~ParsesToTruthy(h[i]) /\ ~AiThrows(h[i])
      /\ (PastLoop(r) /\ h # <<>>)
           => \/ ParsesToTruthy(Last(h)) /\ d = ParsedValue(Last(h))
              \/ AiThrows(Last(h))
              \/ Len(h) = 3 /\ IsFalsyValue(d)
      /\ Len(Attempts(r, "raw_mails")) <= 1
      /\ Len(Attempts(r, "code_mails")) <= 1
      /\ \A i \in 1..Len(dbHistory[r]) :
           dbHistory[r][i][3] =
             IF dbHistory[r][i][1] = "raw_mails"
             THEN ExpectedRawRow(sent[r])
             ELSE ExpectedCodeRow(sent[r], org, c, FieldOr(d.topic, "No Topic Found"))
      /\ Attempts(r, "code_mails") # <<>> => ExtractedCode(r)
      /\ (pc[r] = "done" /\ ExtractedCode(r) /\ ~DbFault(r, "raw_mails"))
           => Attempts(r, "code_mails") # <<>>
      /\ rejected[r] = ExpectedRejections(r)
      /\ barkRequests[r] # <<>>
           => /\ useBark[r] = UseBarkOf(env) /\ useBark[r]
              /\ Attempts(r, "code_mails") # <<>>
              /\ ~DbFault(r, "code_mails")
      /\ Len(barkRequests[r]) <= Len(tokens)
      /\ \A i \in 1..Len(barkRequests[r]) :
           barkRequests[r][i].url =
             <<env.barkUrl, tokens[i], EncodeURIComponent(org), EncodeURIComponent(c)>>
      /\ (pc[r] = "done" /\ useBark[r] /\ Attempts(r, "code_mails") # <<>>
            /\ ~DbFault(r, "code_mails") /\ ~BarkFault(r))
           => Len(barkRequests[r]) = Len(tokens)

\* each slot has run one invocation, and both are over
BothRunsOver ==
  /\ invocations = 2
  /\ \A r \in Runs : pc[r] = "done" /\ sent[r] \in Mails

\* C11: for any interleaving of the steps of two runs, each run makes the AI
\* calls, the notification calls and the rejections it makes alone on its own
\* email and answers, and when both are over raw_mails and code_mails hold,
\* as multisets, the rows the two runs stored: those of the two runs executed
\* one after the other.
C11_InterleavedAsSequential ==
  /\ \A r \in Runs : AsWhenAlone(r)
  /\ BothRunsOver
       => \A x \in {raw_mails[i] : i \in 1..Len(raw_mails)}
                   \cup {code_mails[i] : i \in 1..Len(code_mails)}
                   \cup {ExpectedRawRow(m) : m \in Mails} :
            /\ Count(raw_mails, x) =
                 Count(PersistedRows("r1", "raw_mails"), x)
                   + Count(PersistedRows("r2", "raw_mails"), x)
            /\ Count(code_mails, x) =
                 Count(PersistedRows("r1", "code_mails"), x)
                   + Count(PersistedRows("r2", "code_mails"), x)

\* C11 witness: the steps of two runs for different emails interleaved (r2
\* stored its raw row first, r1 its code row first) and both notified
C11_Witness ==
  /\ BothRunsOver
  /\ sent["r1"] = Mail1 /\ sent["r2"] = Mail2
  /\ Len(raw_mails) = 2 /\ raw_mails[1] = ExpectedRawRow(Mail2)
  /\ Len(code_mails) = 2 /\ code_mails[1].from_addr = Mail1.from
  /\ Len(barkRequests["r1"]) = 2 /\ Len(barkRequests["r2"]) = 2

\* ------------------------------------------------- the notification flag
\* the flag spells true, in any mix of upper and lower case
IsTrueIgnoringCase(s) ==
  /\ Len(s) = 4
  /\ s[1] \in {"t", "T"} /\ s[2] \in {"r", "R"}
  /\ s[3] \in {"u", "U"} /\ s[4] \in {"e", "E"}

\* C12: when UseBark is not 'true' (case-insensitively) no run performs a
\* notification call or enters the notification loop, whatever the
\* extraction result and the configured token list.
C12_DisabledFlagNoNotification ==
  ~IsTrueIgnoringCase(env.UseBark)
    => \A r \in Runs :
         /\ barkRequests[r] = <<>>
         /\ pc[r] # "bark"
         /\ ~useBark[r]
         /\ ~IsLogged(r, "log", "Successfully sent notification to Bark")
         /\ ~IsLogged(r, "error", "Failed to send notification to Bark")

\* C12 witness: the flag is off, tokens are configured, and a run stored a
\* code_mails row for a codeExist = 1 extraction and ended
C12_Witness ==
  \E r \in Runs :
    /\ ~IsTrueIgnoringCase(env.UseBark)
    /\ Len(ParseBarkTokens(env.barkTokens)) = 2
    /\ pc[r] = "done"
    /\ ExtractedCode(r)
    /\ Len(Persisted(r, "code_mails")) = 1

\* ------------------------------------------------- fenced and bare answers
\* C13 as stated: for every JSON text J, a first answer that is J in a fenced
\* block labelled json and a first answer that is the bare J (possibly with
\* white space around) give the same extraction result: the value of J.
C13_FencedParsesAsBare ==
  \A r \in Runs : \A J \in JsonTexts :
    (AiCalls(r) = 1
       /\ aiHistory[r][1] \in {AiText(Fenced(J)), AiText(J), AiText(Padded(J))})
      => extractedData[r] = JsonParse(J)[2]

\* ---------------------------------------------- a code and a link together
\* the pairs of a code and a link of the model, and the code fields that
\* hold both: <<the stored field, the code, the link>>
CodeAndLinkFields ==
  { <<"123456, https://n.example/verify", "123456", "https://n.example/verify">>,
    <<"123456,https://n.example/verify", "123456", "https://n.example/verify">>,
    <<"123456,https://n.example/v?a=1,2", "123456", "https://n.example/v?a=1,2">> }

\* the stored row the i-th row of the page was rendered from
RowShown(i) == code_mails[Len(response.rows) + 1 - i]

\* C14 as stated: when the extraction holds both a code and a link, the
\* stored code field is the code, a comma, the link, and the page's rule
\* splits the stored value back into exactly that code and that link.
C14_CodeLinkRoundTrip ==
  \A i \in 1..Len(response.rows) : \A f \in CodeAndLinkFields :
    RowShown(i).code = f[1]
      => /\ CodeChars(RowShown(i).code) = CodeChars(f[2]) \o <<",">> \o CodeChars(f[3])
         /\ response.rows[i].codeLinkContent.kind = "codeAndLink"
         /\ response.rows[i].codeLinkContent.code = CodeChars(f[2])
         /\ response.rows[i].codeLinkContent.href = CodeChars(f[3])

\* ------------------------------------------------- the order of the steps
\* the number of entries a step added to a history
Grown(old, new) == Len(new) - Len(old)

\* what C15 asks of one step of run r
InPipelineOrder(r) ==
  LET ai == Grown(aiHistory[r], aiHistory'[r])
      db == Grown(dbHistory[r], dbHistory'[r])
      bark == Grown(barkRequests[r], barkRequests'[r])
  IN  \* one request at a time, issued when the one before has come back
      /\ ai <= 1 /\ db <= 1 /\ bark <= 1
      /\ (IF ai = 1 THEN 1 ELSE 0) + (IF db = 1 THEN 1 ELSE 0)
           + (IF bark = 1 THEN 1 ELSE 0) <= 1
      \* the raw_mails INSERT comes first
      /\ (db = 1 /\ Last(dbHistory'[r])[1] = "raw_mails")
           => aiHistory[r] = <<>> /\ dbHistory[r] = <<>> /\ barkRequests[r] = <<>>
      \* an AI attempt comes after it and before the code_mails INSERT
      /\ ai = 1
           => /\ Len(Attempts(r, "raw_mails")) = 1
              /\ Attempts(r, "code_mails") = <<>>
              /\ barkRequests[r] = <<>>
              /\ SubSeq(aiHistory'[r], 1, Len(aiHistory[r])) = aiHistory[r]
      \* the code_mails INSERT comes after every AI attempt
      /\ (db = 1 /\ Last(dbHistory'[r])[1] = "code_mails")
           => /\ AiCalls(r) >= 1
              /\ Len(Attempts(r, "raw_mails")) = 1
              /\ barkRequests[r] = <<>>
      \* a notification call comes after the code_mails INSERT
      /\ bark = 1
           => /\ Len(Attempts(r, "code_mails")) = 1
              /\ AiCalls(r) >= 1
              /\ SubSeq(barkRequests'[r], 1, Len(barkRequests[r])) = barkRequests[r]

\* C15: within a run the raw_mails insert is attempted before the first AI
\* call, every AI attempt precedes the code_mails insert, the code_mails
\* insert is attempted before the first notification call, and AI attempts
\* and notification calls are issued one at a time.
C15_StepsInPipelineOrder == [][\A r \in Runs : InPipelineOrder(r)]_vars

\* C15 witness: a run went through all the steps: the raw insert, two AI
\* attempts, the code insert and two notification calls
C15_Witness ==
  \E r \in Runs :
    /\ pc[r] = "done"
    /\ Len(Attempts(r, "raw_mails")) = 1
    /\ AiCalls(r) = 2
    /\ Len(Attempts(r, "code_mails")) = 1
    /\ Len(barkRequests[r]) = 2

\* ------------------------------------------------ one call for each token
\* the tokens of a bracket-and-comma-delimited list, each trimmed of the
\* white space around it; the list "[]" has none
ConfiguredTokens(s) ==
  LET inner == SubSeq(s, 2, Len(s) - 1)
      parts == Split(inner, ",")
  IN  IF Trim(inner) = <<>> THEN <<>>
      ELSE [i \in 1..Len(parts) |-> Trim(parts[i])]

\* the run reached the notification step with notifications enabled, and
\* every call it made came back
NotifiedAll(r) ==
  /\ pc[r] = "done"
  /\ IsTrueIgnoringCase(env.UseBark)
  /\ ExtractedCode(r)
  /\ Attempts(r, "code_mails") # <<>> /\ ~DbFault(r, "code_mails")
  /\ ~BarkFault(r)

\* C16 as stated: with notifications enabled and codeExist = 1 the run makes
\* exactly one call for each token of the configured list, trimmed, in list
\* order; the list "[]" results in no call.
C16_OneCallPerToken ==
  \A r \in Runs :
    NotifiedAll(r)
      => LET tokens == ConfiguredTokens(env.barkTokens)
         IN  /\ Len(barkRequests[r]) = Len(tokens)
             /\ \A i \in 1..Len(tokens) : barkRequests[r][i].url[2] = tokens[i]

\* ------------------------------------------------- placeholders, no retry
\* the response parses to an object with codeExist = 1 that lacks title,
\* code or topic
LacksField(resp) ==
  /\ ParsesAsJson(resp)
  /\ ParsedValue(resp).kind = "object"
  /\ ParsedValue(resp).codeExist = "num:1"
  /\ Undefined \in {ParsedValue(resp).title, ParsedValue(resp).code,
                    ParsedValue(resp).topic}

\* C17: a response that parses with codeExist = 1 but lacks title, code or
\* topic is not retried: it is the run's last AI call, the placeholder
\* "Unknown Organization", "No Code Found" or "No Topic Found" stands in for
\* each missing field, and the code_mails row is written and the
\* notification calls are made with the substituted values.
C17_PlaceholdersWithoutRetry ==
  \A r \in Runs : \A i \in 1..Len(aiHistory[r]) :
    LacksField(aiHistory[r][i])
      => LET v == ParsedValue(aiHistory[r][i])
             org == FieldOr(v.title, "Unknown Organization")
             c == FieldOr(v.code, "No Code Found")
             t == FieldOr(v.topic, "No Topic Found")
         IN  /\ i = Len(aiHistory[r])
             /\ retryCount[r] = i - 1
             /\ pc[r] \in {"codeInsert", "bark", "done"}
             /\ extractedData[r] = v
             /\ title[r] = org /\ code[r] = c /\ topic[r] = t
             /\ pc[r] # "codeInsert"
                  => /\ Len(Attempts(r, "code_mails")) = 1
                     /\ Attempts(r, "code_mails")[1][3] =
                          ExpectedCodeRow(sent[r], org, c, t)
             /\ (pc[r] = "done" /\ useBark[r] /\ ~DbFault(r, "code_mails"))
                  => barkRequests[r] # <<>>
             /\ \A k \in 1..Len(barkRequests[r]) :
                  /\ barkRequests[r][k].url[3] = EncodeURIComponent(org)
                  /\ barkRequests[r][k].url[4] = EncodeURIComponent(c)

\* C17 witness: after a retried attempt the answer {"codeExist":1} came, the
\* row with the three placeholders was stored and a notification made
C17_Witness ==
  \E r \in Runs :
    /\ pc[r] = "done"
    /\ AiCalls(r) = 2
    /\ LacksField(aiHistory[r][2])
    /\ Len(code_mails) = 1
    /\ code_mails[1].from_org = "Unknown Organization"
    /\ code_mails[1].code = "No Code Found"
    /\ code_mails[1].topic = "No Topic Found"
    /\ barkRequests[r] # <<>>
    /\ barkRequests[r][1].url[3] = "Unknown%20Organization"
    /\ barkRequests[r][1].url[4] = "No%20Code%20Found"

\* --------------------------------------- notification after a failed write
\* extraction yielded codeExist = 1, the code_mails INSERT reported failure,
\* notifications are enabled, and the run is over
CodeWriteFailed(r) ==
  /\ pc[r] = "done"
  /\ ExtractedCode(r)
  /\ Attempts(r, "code_mails") # <<>>
  /\ Attempts(r, "code_mails")[1][2] = "failure"
  /\ IsTrueIgnoringCase(env.UseBark)

\* C18 as stated: when extraction yields codeExist = 1 and the code_mails
\* insert reports failure, the run is rejected and the notification call is
\* still made for every configured token.
C18_FailedWriteStillNotifiesAll ==
  \A r \in Runs :
    CodeWriteFailed(r)
      => LET tokens == ConfiguredTokens(env.barkTokens)
         IN  /\ InSeq(rejected[r],
                      [from |-> sent[r].from, to |-> sent[r].to,
                       what |-> "Failed to save extracted code for message"])
             /\ \A i \in 1..Len(tokens) :
                  /\ i <= Len(barkRequests[r])
                  /\ barkRequests[r][i].url[2] = tokens[i]

\* ------------------------------------------- an AI attempt that throws
\* the request met a transport error, or its body is not the JSON envelope
AttemptFailed(resp) == resp.fetch = "reject" \/ ~resp.body

\* what the run has done when its i-th AI attempt threw, apart from rejections
EndsExtraction(r, i) ==
  /\ i = AiCalls(r)
  /\ pc[r] = "done"
  /\ retryCount[r] = i - 1
  /\ thrown[r] = "none"
  /\ Last(log[r]) = <<"error", CatchText>>
  /\ ~IsLogged(r, "error", FailedText)
  /\ Attempts(r, "code_mails") = <<>>
  /\ barkRequests[r] = <<>>

\* C19 as stated: an exception thrown by an AI attempt ends extraction at
\* once with no further AI call; the run writes no code_mails row, makes no
\* notification call and does not reject the message.
C19_AiExceptionEndsRunUnrejected ==
  \A r \in Runs : \A i \in 1..AiCalls(r) :
    AttemptFailed(aiHistory[r][i])
      => EndsExtraction(r, i) /\ rejected[r] = <<>>

\* C19 amended: an exception thrown by an AI attempt ends extraction at once
\* with no further AI call and without counting as a retry; the run writes
\* no code_mails row and makes no notification call, and the exception does
\* not reject the message: the message is rejected only if the raw_mails
\* write had reported failure before.
C19_AiExceptionEndsExtraction ==
  \A r \in Runs : \A i \in 1..AiCalls(r) :
    AttemptFailed(aiHistory[r][i])
      => /\ EndsExtraction(r, i)
         /\ rejected[r] =
              IF Attempts(r, "raw_mails")[1][2] = "failure"
              THEN <<[from |-> sent[r].from, to |-> sent[r].to,
                      what |-> "Failed to save message"]>>
              ELSE <<>>

\* C19 witness: the second attempt met a transport error after a malformed
\* first answer; the run ended there, notifications being enabled
C19_Witness ==
  \E r \in Runs :
    /\ AiCalls(r) = 2
    /\ Malformed(aiHistory[r][1])
    /\ aiHistory[r][2].fetch = "reject"
    /\ pc[r] = "done"
    /\ useBark[r]
    /\ rejected[r] = <<>>
    /\ Len(Persisted(r, "raw_mails")) = 1

\* ------------------------------------------------ JSON for a falsy value
\* the response's text is valid JSON for null, false, 0 or ""
FalsyJson(resp) ==
  /\ ParsesAsJson(resp)
  /\ ParsedValue(resp).kind \in {"null", "false", "zero", "emptystring"}

\* the attempts of h that came back without a usable result: no JSON, or
\* JSON for a falsy value
Unusable(h) == {i \in 1..Len(h) : Malformed(h[i]) \/ FalsyJson(h[i])}

\* C20: a response whose text is valid JSON for a falsy value is treated like
\* a parse failure: it consumes an attempt and is followed by a retry while
\* fewer than 3 attempts were made, and three such responses end the run as
\* a failed extraction with no code_mails row and no notification.
C20_FalsyJsonIsRetried ==
  \A r \in Runs :
    LET h == aiHistory[r]
    IN  /\ retryCount[r] = Cardinality(Unusable(h))
        /\ \A i \in 1..Len(h) :
             FalsyJson(h[i])
               => /\ i < 3 => (i < Len(h) \/ pc[r] = "aiCall")
                  /\ i = Len(h) => extractedData[r] = ParsedValue(h[i])
                  /\ i = 3 => pc[r] = "done"
        /\ (Len(h) = 3 /\ \A i \in 1..3 : FalsyJson(h[i]))
             => /\ pc[r] = "done"
                /\ Last(log[r]) = <<"error", FailedText>>
                /\ IsLogged(r, "error", "Max retries reached. Unable to get valid AI response.")
                /\ Attempts(r, "code_mails") = <<>>
                /\ barkRequests[r] = <<>>

\* C20 witness: the answers false, 0 and "", in this order, ended a run for
\* which notifications were enabled
C20_Witness ==
  \E r \in Runs :
    /\ AiCalls(r) = 3
    /\ ParsedValue(aiHistory[r][1]).kind = "false"
    /\ ParsedValue(aiHistory[r][2]).kind = "zero"
    /\ ParsedValue(aiHistory[r][3]).kind = "emptystring"
    /\ \A i \in 1..3 : FalsyJson(aiHistory[r][i])
    /\ pc[r] = "done"
    /\ useBark[r]

====
